---- MODULE Spec2Model ----
(***************************************************************************)
(* State machine of the Onchain Message Explorer feed (app/page.tsx,       *)
(* component SimIDXTeaser), its two fetch helpers, the proxy route         *)
(* handlers under app/api/idx and the external indexing API they call.     *)
(*                                                                         *)
(* A message is identified by its txnHash, a number h; the external feed   *)
(* is ordered most recent first and grows at its head, so the feed of n    *)
(* messages is <<Msg(n), ..., Msg(1)>>.  Strings that the code inspects    *)
(* (search query, content, sender, receiver) are sequences of one-         *)
(* character strings, so that trim, toLowerCase and includes are computed. *)
(*                                                                         *)
(* Every asynchronous handler is split where the code awaits its fetch:    *)
(* the dispatch action runs the code before the await and records the      *)
(* values the closure captured; the settle action runs the code after it.  *)
(***************************************************************************)
EXTENDS Integers, Sequences, FiniteSets, Bags, TLC

\* ---------------------------------------------------------------- bounds
\* Messages the external feed holds at mount.
InitFeed == 3
\* Messages that can reach the head of the external feed after mount.
MaxNew == 1
\* Requests that can be in flight at once.
MaxInFlight == 2
\* Page size: the code starts with limit 10 (page.tsx:311); the model scales
\* the page down so that a feed of MaxFeed messages spans several pages.
PageLimit == 2
\* User operations and poll ticks that are dispatched after mount.
MaxOps == 3
\* Messages that can reach the head of the external feed after mount when the
\* operations run one at a time.
SeqMaxNew == 2

\* ------------------------------------------------------ program constants
\* fetchLatestMessages(1, 0, selectedChains) in the poll callback.
PollLimit == 1
\* The chain id left out of DEFAULT_SELECTED_CHAINS.
Unichain == 130
\* The chain id of Ethereum, the other chain of the model.
Ethereum == 1

\* Object.keys(chains).map(Number): the model keeps two of the ten chains.
ALL_CHAIN_IDS == <<Ethereum, Unichain>>

\* ALL_CHAIN_IDS.filter((id) => id !== 130)
DEFAULT_SELECTED_CHAINS == SelectSeq(ALL_CHAIN_IDS, LAMBDA id : id # Unichain)

\* ------------------------------------------------------------ JS strings
\* The strings a user can submit: "", " " (blank) and "a".
Queries == {<<>>, <<" ">>, <<"a">>}

\* if (searchQuery): a string is truthy iff it is not empty.
Truthy(s) == Len(s) > 0

RECURSIVE TrimStart(_)
TrimStart(s) == IF s # <<>> /\ Head(s) = " " THEN TrimStart(Tail(s)) ELSE s

RECURSIVE TrimEnd(_)
TrimEnd(s) ==
    IF s # <<>> /\ s[Len(s)] = " " THEN TrimEnd(SubSeq(s, 1, Len(s) - 1)) ELSE s

\* String.prototype.trim
Trim(s) == TrimEnd(TrimStart(s))

\* String.prototype.toLowerCase
toLowerCase(s) == [i \in 1..Len(s) |-> IF s[i] = "A" THEN "a" ELSE s[i]]

\* String.prototype.includes: q occurs in s as a substring.
includes(s, q) ==
    \E i \in 0..(Len(s) - Len(q)) : SubSeq(s, i + 1, i + Len(q)) = q

\* ------------------------------------------------------------- messages
ChainOf(h) == IF h % 2 = 1 THEN Ethereum ELSE Unichain

ContentOf(h) ==
    CASE h % 3 = 0 -> <<"A">>
      [] h % 3 = 1 -> <<"b">>
      [] OTHER     -> <<"a", " ", "b">>

\* interface Message, restricted to the fields the feed logic reads.
Msg(h) ==
    [txnHash  |-> h,
     chainId  |-> ChainOf(h),
     content  |-> ContentOf(h),
     sender   |-> <<"b">>,
     receiver |-> <<"b">>]

\* The external feed when it holds n messages, most recent first.
Feed(n) == [i \in 1..n |-> Msg(n - i + 1)]

Min(a, b) == IF a < b THEN a ELSE b

\* The window [offset, offset + limit) of a sequence.
Window(s, limit, offset) == SubSeq(s, offset + 1, Min(offset + limit, Len(s)))

VARIABLES
    messages,         \* useState<Message[]>([])
    searchQuery,      \* last submitted query
    loading,
    loadingMore,
    hasNewMessages,
    newMessageCount,
    pagination,       \* {limit, offset, count}
    selectedChains,
    mounted,          \* the mount effects have run
    inflight,         \* bag of the requests awaiting their response
    feedLen,          \* number of messages in the external feed
    honoursLimit,     \* whether the external API cuts its result at limit
    latestRoute,      \* which of the two latest handlers serves /api/idx/latest
    ops,              \* operations dispatched since mount
    last,             \* the step just taken: what ran, on which request, with which result
    exchange          \* the last request a proxy handler served, called on its own

vars == <<messages, searchQuery, loading, loadingMore, hasNewMessages,
          newMessageCount, pagination, selectedChains, mounted, inflight,
          feedLen, honoursLimit, latestRoute, ops, last, exchange>>

client == <<messages, searchQuery, loading, loadingMore, hasNewMessages,
            newMessageCount, pagination, selectedChains>>


\* ------------------------------------------------- external API and proxies
Range(s) == {s[i] : i \in 1..Len(s)}

\* GET {BASE}/latest-messages?limit&offset&chainIds on a feed of n messages:
\* the messages of the chains asked for (all chains when chainIds is absent,
\* written <<>>), cut to the window unless the API ignores limit.
ExternalLatest(n, limit, offset, chainIds, honours) ==
    LET sel == IF chainIds = <<>>
               THEN Feed(n)
               ELSE SelectSeq(Feed(n), LAMBDA m : m.chainId \in Range(chainIds))
        res == Window(sel, IF honours THEN limit ELSE Len(sel), offset)
    IN  [result |-> res,
         pagination |-> [limit |-> limit, offset |-> offset, count |-> Len(res)]]

\* GET {BASE}/search-messages?content&limit&offset: the messages whose content
\* holds the query, whatever their chain.
ExternalSearch(n, content, limit, offset, honours) ==
    LET sel == SelectSeq(Feed(n),
                   LAMBDA m : includes(toLowerCase(m.content), toLowerCase(content)))
        res == Window(sel, IF honours THEN limit ELSE Len(sel), offset)
    IN  [result |-> res,
         pagination |-> [limit |-> limit, offset |-> offset, count |-> Len(res)]]

\* ------------------------------------------------------------ query strings
\* A query parameter is absent ({}: searchParams.get gives null) or carries one
\* value ({v}); the value of a parameter written "name=" is the empty string.
Absent == {}

Present(v) == {v}

ValueOf(param) == CHOOSE v \in param : TRUE

\* param ?? fallback
OrDefault(param, fallback) == IF param = Absent THEN fallback ELSE ValueOf(param)

RECURSIVE encodeURIComponent(_)
\* encodeURIComponent on the alphabet of the model: a space becomes %20 and a
\* percent sign %25.
encodeURIComponent(s) ==
    IF s = <<>> THEN <<>>
    ELSE (CASE Head(s) = " " -> <<"%", "2", "0">>
            [] Head(s) = "%" -> <<"%", "2", "5">>
            [] OTHER         -> <<Head(s)>>) \o encodeURIComponent(Tail(s))

RECURSIVE decodeURIComponent(_)
\* What URL.searchParams (and the external API) make of an encoded value.
decodeURIComponent(s) ==
    IF s = <<>> THEN <<>>
    ELSE IF Len(s) >= 3 /\ SubSeq(s, 1, 3) = <<"%", "2", "0">>
         THEN <<" ">> \o decodeURIComponent(SubSeq(s, 4, Len(s)))
    ELSE IF Len(s) >= 3 /\ SubSeq(s, 1, 3) = <<"%", "2", "5">>
         THEN <<"%">> \o decodeURIComponent(SubSeq(s, 4, Len(s)))
    ELSE <<Head(s)>> \o decodeURIComponent(Tail(s))

\* The query of a request: the four parameters the handlers read.
Query(limit, offset, chainIds, content) ==
    [limit |-> limit, offset |-> offset, chainIds |-> chainIds, content |-> content]

NoQuery == Query(Absent, Absent, Absent, Absent)

\* A request to the external API.
Outbound(endpoint, limit, offset, chainIds, content) ==
    [endpoint |-> endpoint, limit |-> limit, offset |-> offset,
     chainIds |-> chainIds, content |-> content]

\* ----------------------------------------------------------- proxy handlers
\* searchParams.get("limit") ?? "10"
DefaultLimit == 10
\* searchParams.get("offset") ?? "0"
DefaultOffset == 0
\* The status of the search handler's answer to a request without content.
BadRequest == 400
\* app/api/idx/latest/route.ts, up to its fetch: the request it sends to the
\* external API.  It reads limit and offset only.
LatestRouteOutbound(inbound) ==
    <<Outbound("latest-messages",
               OrDefault(inbound.limit, DefaultLimit),
               OrDefault(inbound.offset, DefaultOffset),
               Absent, Absent)>>

\* The other latest handler of the repository, up to its fetch: chainIds is
\* appended when it is truthy.
LatestPart000Outbound(inbound) ==
    <<Outbound("latest-messages",
               OrDefault(inbound.limit, DefaultLimit),
               OrDefault(inbound.offset, DefaultOffset),
               IF inbound.chainIds # Absent /\ Truthy(ValueOf(inbound.chainIds))
               THEN inbound.chainIds ELSE Absent,
               Absent)>>

\* As SearchRouteOutbound, without the check of content.
SearchRouteOutboundUnchecked(inbound) ==
    <<Outbound("search-messages",
               OrDefault(inbound.limit, DefaultLimit),
               OrDefault(inbound.offset, DefaultOffset),
               Absent,
               Present(encodeURIComponent(OrDefault(inbound.content, <<>>))))>>

\* The search handler up to its fetch: no request without content, else one
\* request with the content encoded.
SearchRouteOutbound(inbound) ==
    IF inbound.content = Absent \/ ~Truthy(ValueOf(inbound.content))
    THEN <<>>
    ELSE <<Outbound("search-messages",
                    OrDefault(inbound.limit, DefaultLimit),
                    OrDefault(inbound.offset, DefaultOffset),
                    Absent,
                    Present(encodeURIComponent(ValueOf(inbound.content))))>>

\* As NextResponseJson, answering 200 whatever the upstream status.
NextResponseJsonStatusOk(upstream) ==
    IF upstream.json
    THEN [status |-> 200, body |-> upstream.body]
    ELSE [status |-> 500, body |-> "none"]

\* const data = await externalRes.json();
\* return NextResponse.json(data, { status: externalRes.status })
\* A body that is not JSON makes json() reject, and the handler throws.
NextResponseJson(upstream) ==
    IF upstream.json
    THEN [status |-> upstream.status, body |-> upstream.body]
    ELSE [status |-> 500, body |-> "none"]

\* NextResponse.json({ error: "'content' query param required" }, { status: 400 })
ContentRequired == [status |-> BadRequest, body |-> "contentRequired"]

LatestRoutes == {"route.ts", "part_000"}

\* One request served by a handler: what came in, the requests the handler
\* sent to the external API, the answer it got (none when it sent nothing) and
\* what it returned.
Exchange(handler, inbound, outbound, upstream, response) ==
    [handler |-> handler, inbound |-> inbound, outbound |-> outbound,
     upstream |-> upstream, response |-> response]

NoExchange == Exchange("none", NoQuery, <<>>, {}, [status |-> 0, body |-> "none"])

\* What the browser's fetchLatestMessages puts in its query string.
LatestQueryString(limit, offset, chainIds) ==
    Query(Present(limit), Present(offset),
          IF Len(chainIds) > 0 THEN Present(chainIds) ELSE Absent, Absent)

\* What the search handler reads of the query string the browser's
\* fetchSearchMessages builds.
SearchQueryString(content, limit, offset) ==
    Query(Present(limit), Present(offset), Absent,
          Present(decodeURIComponent(encodeURIComponent(content))))

\* The external API answering a request of a handler from a feed of n messages.
External(n, out, honours) ==
    IF out.endpoint = "latest-messages"
    THEN ExternalLatest(n, out.limit, out.offset,
                        OrDefault(out.chainIds, <<>>), honours)
    ELSE ExternalSearch(n, decodeURIComponent(ValueOf(out.content)),
                        out.limit, out.offset, honours)

\* The handler of app/api/idx/latest/route.ts: forwards limit and offset only.
LatestRouteGET(n, limit, offset, chainIds, honours) ==
    External(n, LatestRouteOutbound(LatestQueryString(limit, offset, chainIds))[1], honours)

\* The other latest handler of the repository: forwards chainIds when present.
LatestPart000GET(n, limit, offset, chainIds, honours) ==
    External(n, LatestPart000Outbound(LatestQueryString(limit, offset, chainIds))[1], honours)

\* The search handler: 400 without content, else forwards.
SearchRouteGET(n, content, limit, offset, honours) ==
    LET outbound == SearchRouteOutbound(SearchQueryString(content, limit, offset))
    IN  IF outbound = <<>>
        THEN [error |-> "content required"]
        ELSE External(n, outbound[1], honours)

\* ------------------------------------------------------------ fetch helpers
\* How a fetch can end: a body with a result array, a body without any message
\* container, or a rejected fetch.
Outcomes == {"ok", "badShape", "network"}

Threw == [threw |-> TRUE, result |-> <<>>,
          pagination |-> [limit |-> 0, offset |-> 0, count |-> 0]]

\* fetchLatestMessages(limit, offset, chainIds) answered from a feed of n messages.
fetchLatestMessages(limit, offset, chainIds, n, outcome, route, honours) ==
    LET rawData == IF route = "route.ts"
                   THEN LatestRouteGET(n, limit, offset, chainIds, honours)
                   ELSE LatestPart000GET(n, limit, offset, chainIds, honours)
    IN  IF outcome # "ok"
        THEN Threw
        ELSE [threw |-> FALSE, result |-> rawData.result,
              pagination |-> rawData.pagination]

\* fetchSearchMessages(content, limit, offset) answered from a feed of n messages.
fetchSearchMessages(content, limit, offset, n, outcome, honours) ==
    LET rawData == SearchRouteGET(n, content, limit, offset, honours)
    IN  IF outcome # "ok" \/ "result" \notin DOMAIN rawData
        THEN Threw
        ELSE [threw |-> FALSE, result |-> rawData.result,
              pagination |-> rawData.pagination]

\* ------------------------------------------------------------- requests
NoPagination == [limit |-> 0, offset |-> 0, count |-> 0]

\* A request in flight: the fetch arguments, the values the closure that awaits
\* it captured (messages, pagination), the feed length at dispatch, and, for a
\* refresh, whether the step before the click was a poll callback that set
\* hasNewMessages (nothing ran between that poll and the refresh).
Request(kind, endpoint, limit, offset, chainIds, content, msgs, pag) ==
    [kind |-> kind, endpoint |-> endpoint, limit |-> limit, offset |-> offset,
     chainIds |-> chainIds, content |-> content, messages |-> msgs,
     pagination |-> pag, sentAt |-> feedLen, afterPoll |-> FALSE]

NoRequest ==
    [kind |-> "none", endpoint |-> "none", limit |-> 0, offset |-> 0,
     chainIds |-> <<>>, content |-> <<>>, messages |-> <<>>,
     pagination |-> NoPagination, sentAt |-> 0, afterPoll |-> FALSE]

Dispatched(req) == [op |-> "dispatch", kind |-> req.kind, ok |-> TRUE,
                    req |-> req, result |-> <<>>]

Settled(req, data) == [op |-> "settle", kind |-> req.kind, ok |-> ~data.threw,
                       req |-> req, result |-> data.result]

\* The response of a request, computed by the server on the feed of n messages.
Fetch(req, n, outcome) ==
    IF req.endpoint = "latest"
    THEN fetchLatestMessages(req.limit, req.offset, req.chainIds, n, outcome,
                             latestRoute, honoursLimit)
    ELSE fetchSearchMessages(req.content, req.limit, req.offset, n, outcome,
                             honoursLimit)

Remove(req) == inflight (-) SetToBag({req})

Add(req) == inflight (+) SetToBag({req})

Env == <<feedLen, honoursLimit, latestRoute, exchange>>

\* ----------------------------------------------------------------- Init
Init ==
    /\ messages = <<>>
    /\ searchQuery = <<>>
    /\ loading = FALSE
    /\ loadingMore = FALSE
    /\ hasNewMessages = FALSE
    /\ newMessageCount = 0
    /\ pagination = [limit |-> PageLimit, offset |-> 0, count |-> 0]
    /\ selectedChains = DEFAULT_SELECTED_CHAINS
    /\ mounted = FALSE
    /\ ops = 0
    /\ inflight = EmptyBag
    /\ feedLen = InitFeed
    /\ honoursLimit \in BOOLEAN
    /\ latestRoute \in LatestRoutes
    /\ last = [op |-> "init", kind |-> "none", ok |-> TRUE,
               req |-> NoRequest, result |-> <<>>]
    /\ exchange = NoExchange


\* ------------------------------------------------------- pure list steps
\* As findIndex, answering 0 where findIndex answers -1.
findIndexNotFoundZero(result, hash) ==
    IF \E i \in 1..Len(result) : result[i].txnHash = hash
    THEN (CHOOSE i \in 1..Len(result) :
            /\ result[i].txnHash = hash
            /\ \A j \in 1..(i - 1) : result[j].txnHash # hash) - 1
    ELSE 0

\* Array.prototype.findIndex on txnHash: the 0-based index of the first
\* message with that hash, -1 when there is none.
findIndex(result, hash) ==
    IF \E i \in 1..Len(result) : result[i].txnHash = hash
    THEN (CHOOSE i \in 1..Len(result) :
            /\ result[i].txnHash = hash
            /\ \A j \in 1..(i - 1) : result[j].txnHash # hash) - 1
    ELSE -1

\* As PollDiff, with the 0-based index taken for a 1-based position.
PollDiffOffByOne(result, known) ==
    LET latestKnownHash == known[1].txnHash
        index == findIndex(result, latestKnownHash)
    IN  IF index = -1 THEN Len(result) ELSE index + 1

\* The poll callback's diff: how many messages of the response precede the
\* newest hash of the list the callback holds.
PollDiff(result, known) ==
    LET latestKnownHash == known[1].txnHash
        index == findIndex(result, latestKnownHash)
    IN  IF index = -1 THEN Len(result) ELSE index

\* handleRefresh: data.result.filter((m) => !messages.find(...)), against the
\* list the handler captured.
RefreshUnique(result, captured) ==
    SelectSeq(result,
              LAMBDA m : ~\E i \in 1..Len(captured) : captured[i].txnHash = m.txnHash)

\* handleRefresh: setMessages((prev) => [...unique, ...prev])
RefreshMerge(result, captured, prev) == RefreshUnique(result, captured) \o prev

\* handleRefresh: newMessageCount || pagination.limit
RefreshLimit(count, limit) == IF count # 0 THEN count ELSE limit

\* handleLoadMore: setMessages((prev) => [...prev, ...data.result])
LoadMoreMerge(prev, result) == prev \o result

\* handleLoadMore: setPagination({ ...pagination, offset: newOffset }), with
\* the pagination the handler captured.
LoadMorePagination(captured, current, newOffset) ==
    [captured EXCEPT !.offset = newOffset]

\* As SearchReplace, but merging the response into the list.
SearchMerge(prev, result) == prev \o result

\* handleSearch: setMessages(data.result)
SearchReplace(prev, result) == result

\* As PollingSuspended, without the check of searchQuery.
PollingNeverSuspended(query) == FALSE

\* The poll effect: if (searchQuery) return, so no interval is installed.
PollingSuspended(query) == Truthy(query)

\* handleSearch: which endpoint the submitted query is sent to.
SearchEndpoint(query) == IF Trim(query) = <<>> THEN "latest" ELSE "search"

\* filteredMessages: the client-side text filter of the rendered list.
filteredMessages(list, query) ==
    SelectSeq(list, LAMBDA message :
        \/ query = <<>>
        \/ includes(toLowerCase(message.content), toLowerCase(query))
        \/ includes(toLowerCase(message.sender), toLowerCase(query))
        \/ includes(toLowerCase(message.receiver), toLowerCase(query)))

\* --------------------------------------------------------------- dispatch
Room(k) == BagCardinality(inflight) + k <= MaxInFlight /\ (mounted => ops < MaxOps)

\* Mount: the loadInitial effect and the reload effect both run.
Mount ==
    /\ ~mounted
    /\ Room(2)
    /\ ops' = ops
    /\ mounted' = TRUE
    /\ loading' = TRUE
    /\ LET init == Request("loadInitial", "latest", pagination.limit, 0,
                           selectedChains, <<>>, <<>>, NoPagination)
           rel  == Request("reload", "latest", pagination.limit, 0,
                           selectedChains, <<>>, <<>>, NoPagination)
       IN  /\ inflight' = IF Truthy(searchQuery)
                          THEN Add(init)
                          ELSE Add(init) (+) SetToBag({rel})
           /\ last' = Dispatched(init)
    /\ UNCHANGED <<messages, searchQuery, loadingMore, hasNewMessages,
                  newMessageCount, pagination, selectedChains, Env>>

\* toggleChain(id) and the reload effect its state change triggers.  The chain
\* buttons are rendered only while no query is active.
ToggleChain(id) ==
    /\ mounted
    /\ ~Truthy(searchQuery)
    /\ Room(1)
    /\ ops' = ops + 1
    /\ selectedChains' = IF id \in Range(selectedChains)
                         THEN SelectSeq(selectedChains, LAMBDA cid : cid # id)
                         ELSE Append(selectedChains, id)
    /\ loading' = TRUE
    /\ LET req == Request("reload", "latest", pagination.limit, 0,
                          selectedChains', <<>>, <<>>, NoPagination)
       IN  /\ inflight' = Add(req)
           /\ last' = Dispatched(req)
    /\ UNCHANGED <<messages, searchQuery, loadingMore, hasNewMessages,
                  newMessageCount, pagination, mounted, Env>>

\* One tick of the poll interval: the callback holds the messages and the
\* selectedChains of the render that installed it.
PollTick ==
    /\ mounted
    /\ ~PollingSuspended(searchQuery)
    /\ Room(1)
    /\ ops' = ops + 1
    /\ LET req == Request("poll", "latest", PollLimit, 0, selectedChains,
                          <<>>, messages, NoPagination)
       IN  /\ inflight' = Add(req)
           /\ last' = Dispatched(req)
    /\ UNCHANGED <<client, mounted, Env>>

\* The step recorded is a poll callback that ran setNewMessageCount(diff) and
\* setHasNewMessages(true).
PollSetHasNewMessages(step) ==
    /\ step.op = "settle" /\ step.kind = "poll" /\ step.ok
    /\ Len(step.req.messages) # 0
    /\ PollDiff(step.result, step.req.messages) > 0

\* handleRefresh up to its await.  The button is rendered only in the
\* real-time feed with hasNewMessages, and is disabled while loading.
HandleRefresh ==
    /\ mounted
    /\ ~Truthy(searchQuery) /\ ~loading
    /\ hasNewMessages
    /\ Room(1)
    /\ ops' = ops + 1
    /\ loading' = TRUE
    /\ LET req == [Request("refresh", "latest",
                           RefreshLimit(newMessageCount, pagination.limit), 0,
                           selectedChains, <<>>, messages, NoPagination)
                   EXCEPT !.afterPoll = PollSetHasNewMessages(last)]
       IN  /\ inflight' = Add(req)
           /\ last' = Dispatched(req)
    /\ UNCHANGED <<messages, searchQuery, loadingMore, hasNewMessages,
                  newMessageCount, pagination, selectedChains, mounted, Env>>

\* handleLoadMore up to its await.  The button is rendered under a non-empty
\* filtered list and is disabled while loading or loadingMore.
HandleLoadMore ==
    /\ mounted
    /\ ~loading /\ ~loadingMore
    /\ filteredMessages(messages, searchQuery) # <<>>
    /\ Room(1)
    /\ ops' = ops + 1
    /\ loadingMore' = TRUE
    /\ LET newOffset == pagination.offset + pagination.limit
           req == IF Truthy(searchQuery)
                  THEN Request("loadMore", "search", pagination.limit, newOffset,
                               <<>>, searchQuery, <<>>, pagination)
                  ELSE Request("loadMore", "latest", pagination.limit, newOffset,
                               selectedChains, <<>>, <<>>, pagination)
       IN  /\ inflight' = Add(req)
           /\ last' = Dispatched(req)
    /\ UNCHANGED <<messages, searchQuery, loading, hasNewMessages,
                  newMessageCount, pagination, selectedChains, mounted, Env>>

\* handleSearch(query) up to its await.  Enter in the search box submits
\* whatever the state of the buttons.
HandleSearch(query) ==
    /\ mounted
    /\ Room(1)
    /\ ops' = ops + 1
    /\ searchQuery' = query
    /\ pagination' = [pagination EXCEPT !.offset = 0]
    /\ loading' = TRUE
    /\ LET req == IF SearchEndpoint(query) = "latest"
                  THEN Request("search", "latest", pagination.limit, 0,
                               selectedChains, query, <<>>, NoPagination)
                  ELSE Request("search", "search", pagination.limit, 0,
                               <<>>, query, <<>>, NoPagination)
       IN  /\ inflight' = Add(req)
           /\ last' = Dispatched(req)
    /\ UNCHANGED <<messages, loadingMore, hasNewMessages, newMessageCount,
                  selectedChains, mounted, Env>>

\* A new message reaches the head of the external feed, which holds fewer than
\* InitFeed + max messages.
Arrival(max) ==
    /\ feedLen < InitFeed + max
    /\ feedLen' = feedLen + 1
    /\ last' = [op |-> "feed", kind |-> "none", ok |-> TRUE,
                req |-> NoRequest, result |-> <<>>]
    /\ UNCHANGED <<client, mounted, inflight, honoursLimit, latestRoute, ops,
                   exchange>>

\* A new message reaches the head of the external feed.
NewMessage == Arrival(MaxNew)

\* ----------------------------------------------------------------- settle
\* loadInitial after its await.
SettleLoadInitial(req, n, outcome) ==
    /\ req.kind = "loadInitial"
    /\ n \in req.sentAt..feedLen
    /\ LET data == Fetch(req, n, outcome)
       IN  /\ IF data.threw
              THEN UNCHANGED <<messages, pagination>>
              ELSE /\ messages' = data.result
                   /\ pagination' = data.pagination
           /\ loading' = FALSE
           /\ inflight' = Remove(req)
           /\ last' = Settled(req, data)
           /\ UNCHANGED <<searchQuery, loadingMore, hasNewMessages, newMessageCount,
                          selectedChains, mounted, ops, Env>>

\* reload after its await.
SettleReload(req, n, outcome) ==
    /\ req.kind = "reload"
    /\ n \in req.sentAt..feedLen
    /\ LET data == Fetch(req, n, outcome)
       IN  /\ IF data.threw
              THEN UNCHANGED <<messages, pagination>>
              ELSE /\ messages' = data.result
                   /\ pagination' = data.pagination
           /\ loading' = FALSE
           /\ inflight' = Remove(req)
           /\ last' = Settled(req, data)
           /\ UNCHANGED <<searchQuery, loadingMore, hasNewMessages, newMessageCount,
                          selectedChains, mounted, ops, Env>>

\* As SettlePoll, ending with setLoading(false) like the other handlers.
SettlePollClearsLoading(req, n, outcome) ==
    /\ req.kind = "poll"
    /\ n \in req.sentAt..feedLen
    /\ LET data == Fetch(req, n, outcome)
       IN  /\ IF ~data.threw /\ Len(req.messages) # 0
                   /\ PollDiff(data.result, req.messages) > 0
              THEN /\ newMessageCount' = PollDiff(data.result, req.messages)
                   /\ hasNewMessages' = TRUE
              ELSE UNCHANGED <<hasNewMessages, newMessageCount>>
           /\ loading' = FALSE
           /\ inflight' = Remove(req)
           /\ last' = Settled(req, data)
           /\ UNCHANGED <<messages, searchQuery, loadingMore, pagination,
                          selectedChains, mounted, ops, Env>>

\* The poll callback after its await.
SettlePoll(req, n, outcome) ==
    /\ req.kind = "poll"
    /\ n \in req.sentAt..feedLen
    /\ LET data == Fetch(req, n, outcome)
       IN  /\ IF ~data.threw /\ Len(req.messages) # 0
                   /\ PollDiff(data.result, req.messages) > 0
              THEN /\ newMessageCount' = PollDiff(data.result, req.messages)
                   /\ hasNewMessages' = TRUE
              ELSE UNCHANGED <<hasNewMessages, newMessageCount>>
           /\ inflight' = Remove(req)
           /\ last' = Settled(req, data)
           /\ UNCHANGED <<messages, searchQuery, loading, loadingMore, pagination,
                          selectedChains, mounted, ops, Env>>

\* As SettleRefresh, clearing the flag and the count whether or not the fetch threw.
SettleRefreshAlwaysClears(req, n, outcome) ==
    /\ req.kind = "refresh"
    /\ n \in req.sentAt..feedLen
    /\ LET data == Fetch(req, n, outcome)
       IN  /\ IF data.threw
              THEN UNCHANGED messages
              ELSE messages' = RefreshMerge(data.result, req.messages, messages)
           /\ hasNewMessages' = FALSE
           /\ newMessageCount' = 0
           /\ loading' = FALSE
           /\ inflight' = Remove(req)
           /\ last' = Settled(req, data)
           /\ UNCHANGED <<searchQuery, loadingMore, pagination, selectedChains,
                          mounted, ops, Env>>

\* As SettleRefresh, without setNewMessageCount(0).
SettleRefreshKeepsCount(req, n, outcome) ==
    /\ req.kind = "refresh"
    /\ n \in req.sentAt..feedLen
    /\ LET data == Fetch(req, n, outcome)
       IN  /\ IF data.threw
              THEN UNCHANGED <<messages, hasNewMessages>>
              ELSE /\ messages' = RefreshMerge(data.result, req.messages, messages)
                   /\ hasNewMessages' = FALSE
           /\ loading' = FALSE
           /\ inflight' = Remove(req)
           /\ last' = Settled(req, data)
           /\ UNCHANGED <<searchQuery, loadingMore, newMessageCount, pagination,
                          selectedChains, mounted, ops, Env>>

\* handleRefresh after its await.
SettleRefresh(req, n, outcome) ==
    /\ req.kind = "refresh"
    /\ n \in req.sentAt..feedLen
    /\ LET data == Fetch(req, n, outcome)
       IN  /\ IF data.threw
              THEN UNCHANGED <<messages, hasNewMessages, newMessageCount>>
              ELSE /\ messages' = RefreshMerge(data.result, req.messages, messages)
                   /\ hasNewMessages' = FALSE
                   /\ newMessageCount' = 0
           /\ loading' = FALSE
           /\ inflight' = Remove(req)
           /\ last' = Settled(req, data)
           /\ UNCHANGED <<searchQuery, loadingMore, pagination, selectedChains,
                          mounted, ops, Env>>

\* As SettleLoadMore, with setLoadingMore(false) at the end of the try block
\* instead of in finally.
SettleLoadMoreNoFinally(req, n, outcome) ==
    /\ req.kind = "loadMore"
    /\ n \in req.sentAt..feedLen
    /\ LET data == Fetch(req, n, outcome)
       IN  /\ IF data.threw
              THEN UNCHANGED <<messages, pagination, loadingMore>>
              ELSE /\ messages' = LoadMoreMerge(messages, data.result)
                   /\ pagination' = LoadMorePagination(req.pagination, pagination, req.offset)
                   /\ loadingMore' = FALSE
           /\ inflight' = Remove(req)
           /\ last' = Settled(req, data)
           /\ UNCHANGED <<searchQuery, loading, hasNewMessages, newMessageCount,
                          selectedChains, mounted, ops, Env>>

\* handleLoadMore after its await.
SettleLoadMore(req, n, outcome) ==
    /\ req.kind = "loadMore"
    /\ n \in req.sentAt..feedLen
    /\ LET data == Fetch(req, n, outcome)
       IN  /\ IF data.threw
              THEN UNCHANGED <<messages, pagination>>
              ELSE /\ messages' = LoadMoreMerge(messages, data.result)
                   /\ pagination' = LoadMorePagination(req.pagination, pagination, req.offset)
           /\ loadingMore' = FALSE
           /\ inflight' = Remove(req)
           /\ last' = Settled(req, data)
           /\ UNCHANGED <<searchQuery, loading, hasNewMessages, newMessageCount,
                          selectedChains, mounted, ops, Env>>

\* As SettleSearch, dropping the response of a submission that is no longer the
\* current query.
SettleSearchDropsStale(req, n, outcome) ==
    /\ req.kind = "search"
    /\ n \in req.sentAt..feedLen
    /\ LET data == Fetch(req, n, outcome)
       IN  /\ IF data.threw \/ req.content # searchQuery
              THEN UNCHANGED messages
              ELSE messages' = SearchReplace(messages, data.result)
           /\ loading' = FALSE
           /\ inflight' = Remove(req)
           /\ last' = Settled(req, data)
           /\ UNCHANGED <<searchQuery, loadingMore, hasNewMessages, newMessageCount,
                          pagination, selectedChains, mounted, ops, Env>>

\* handleSearch after its await (either branch).
SettleSearch(req, n, outcome) ==
    /\ req.kind = "search"
    /\ n \in req.sentAt..feedLen
    /\ LET data == Fetch(req, n, outcome)
       IN  /\ IF data.threw
              THEN UNCHANGED messages
              ELSE messages' = SearchReplace(messages, data.result)
           /\ loading' = FALSE
           /\ inflight' = Remove(req)
           /\ last' = Settled(req, data)
           /\ UNCHANGED <<searchQuery, loadingMore, hasNewMessages, newMessageCount,
                          pagination, selectedChains, mounted, ops, Env>>

\* The feed lengths on which the server can have computed a response.
Snapshots == 0..(InitFeed + IF MaxNew < SeqMaxNew THEN SeqMaxNew ELSE MaxNew)

\* A response reaches the browser: the server computed it on the feed as it
\* was at some moment between the request's dispatch and now.
Next ==
    \/ Mount
    \/ \E id \in Range(ALL_CHAIN_IDS) : ToggleChain(id)
    \/ PollTick
    \/ HandleRefresh
    \/ HandleLoadMore
    \/ \E query \in Queries : HandleSearch(query)
    \/ NewMessage
    \/ \E req \in BagToSet(inflight) : \E n \in Snapshots : \E outcome \in Outcomes :
         SettleLoadInitial(req, n, outcome)
    \/ \E req \in BagToSet(inflight) : \E n \in Snapshots : \E outcome \in Outcomes :
         SettleReload(req, n, outcome)
    \/ \E req \in BagToSet(inflight) : \E n \in Snapshots : \E outcome \in Outcomes :
         SettlePoll(req, n, outcome)
    \/ \E req \in BagToSet(inflight) : \E n \in Snapshots : \E outcome \in Outcomes :
         SettleRefresh(req, n, outcome)
    \/ \E req \in BagToSet(inflight) : \E n \in Snapshots : \E outcome \in Outcomes :
         SettleLoadMore(req, n, outcome)
    \/ \E req \in BagToSet(inflight) : \E n \in Snapshots : \E outcome \in Outcomes :
         SettleSearch(req, n, outcome)

Spec == Init /\ [][Next]_vars

\* ------------------------------------------------ operations one at a time
\* No request is awaited: every handler that started has run to its end.
Idle == inflight = EmptyBag

\* The behaviours in which each operation completes before the next starts
\* (the two effects of the mount count as one operation), and the external
\* feed receives up to SeqMaxNew messages between operations.
SeqNext ==
    \/ Mount
    \/ Idle /\ \E id \in Range(ALL_CHAIN_IDS) : ToggleChain(id)
    \/ Idle /\ PollTick
    \/ Idle /\ HandleRefresh
    \/ Idle /\ HandleLoadMore
    \/ Idle /\ \E query \in Queries : HandleSearch(query)
    \/ Idle /\ Arrival(SeqMaxNew)
    \/ \E req \in BagToSet(inflight) : \E n \in Snapshots : \E outcome \in Outcomes :
         SettleLoadInitial(req, n, outcome)
    \/ \E req \in BagToSet(inflight) : \E n \in Snapshots : \E outcome \in Outcomes :
         SettleReload(req, n, outcome)
    \/ \E req \in BagToSet(inflight) : \E n \in Snapshots : \E outcome \in Outcomes :
         SettlePoll(req, n, outcome)
    \/ \E req \in BagToSet(inflight) : \E n \in Snapshots : \E outcome \in Outcomes :
         SettleRefresh(req, n, outcome)
    \/ \E req \in BagToSet(inflight) : \E n \in Snapshots : \E outcome \in Outcomes :
         SettleLoadMore(req, n, outcome)
    \/ \E req \in BagToSet(inflight) : \E n \in Snapshots : \E outcome \in Outcomes :
         SettleSearch(req, n, outcome)

SeqSpec == Init /\ [][SeqNext]_vars

\* ------------------------------------------------ every request settles
\* Some request in flight settles, successfully or not.
SettleAny ==
    \E req \in BagToSet(inflight) : \E n \in Snapshots : \E outcome \in Outcomes :
        \/ SettleLoadInitial(req, n, outcome)
        \/ SettleReload(req, n, outcome)
        \/ SettlePoll(req, n, outcome)
        \/ SettleRefresh(req, n, outcome)
        \/ SettleLoadMore(req, n, outcome)
        \/ SettleSearch(req, n, outcome)

\* The operations and the responses; the external feed receives its message
\* between two operations (when it arrives has no bearing on the loading flags).
LiveNext ==
    \/ Mount
    \/ Idle /\ NewMessage
    \/ \E id \in Range(ALL_CHAIN_IDS) : ToggleChain(id)
    \/ PollTick
    \/ HandleRefresh
    \/ HandleLoadMore
    \/ \E query \in Queries : HandleSearch(query)
    \/ SettleAny

\* The deployment of the app directory: the handler of
\* app/api/idx/latest/route.ts, in front of an API that honours limit.
LiveInit == Init /\ honoursLimit /\ latestRoute = "route.ts"

\* The behaviours in which every dispatched request eventually settles; the
\* user and the poll timer stop after MaxOps operations.
LiveSpec == LiveInit /\ [][LiveNext]_vars /\ WF_vars(SettleAny)

\* ------------------------------------------- the proxy handlers on their own
\* The handlers are HTTP endpoints: any client can call them with any query
\* string, and the external API can answer with any status and body.
LimitParams == {Absent, Present(1), Present(PageLimit)}

OffsetParams == {Absent, Present(0), Present(PageLimit)}

ChainIdsParams == {Absent, Present(<<>>), Present(<<Ethereum>>),
                   Present(<<Ethereum, Unichain>>)}

ContentParams == {Absent, Present(<<>>), Present(<<"a">>), Present(<<"a", " ", "b">>)}

\* What the external API can answer: a status, and a body that is JSON (a page
\* of messages or an error object) or is not.
UpstreamResponses ==
    [status : {200, 404, 500}, json : BOOLEAN, body : {"messages", "error"}]

\* GET of one of the two latest handlers.
ProxyLatestGET(handler, inbound, upstream) ==
    /\ LET outbound == IF handler = "route.ts"
                       THEN LatestRouteOutbound(inbound)
                       ELSE LatestPart000Outbound(inbound)
       IN  exchange' = Exchange(handler, inbound, outbound, {upstream},
                                NextResponseJson(upstream))
    /\ UNCHANGED <<client, mounted, inflight, feedLen, honoursLimit, latestRoute,
                   ops, last>>

\* GET of the search handler.
ProxySearchGET(inbound, upstream) ==
    /\ LET outbound == SearchRouteOutbound(inbound)
       IN  exchange' = IF outbound = <<>>
                       THEN Exchange("search", inbound, outbound, {}, ContentRequired)
                       ELSE Exchange("search", inbound, outbound, {upstream},
                                     NextResponseJson(upstream))
    /\ UNCHANGED <<client, mounted, inflight, feedLen, honoursLimit, latestRoute,
                   ops, last>>

ProxyNext ==
    \/ \E handler \in LatestRoutes :
         \E inbound \in [limit : LimitParams, offset : OffsetParams,
                         chainIds : ChainIdsParams, content : {Absent}] :
           \E upstream \in UpstreamResponses :
             ProxyLatestGET(handler, inbound, upstream)
    \/ \E inbound \in [limit : LimitParams, offset : OffsetParams,
                       chainIds : {Absent}, content : ContentParams] :
         \E upstream \in UpstreamResponses :
           ProxySearchGET(inbound, upstream)

ProxySpec == Init /\ [][ProxyNext]_vars


\* ================================================================ claims
Hashes(list) == {list[i].txnHash : i \in 1..Len(list)}

NoDuplicate(list) ==
    \A i, j \in 1..Len(list) : list[i].txnHash = list[j].txnHash => i = j

IsPrefix(a, b) == Len(a) <= Len(b) /\ SubSeq(b, 1, Len(a)) = a

\* The step just taken is the code after the await of a handler of that kind.
SettledNow(kind) == last'.op = "settle" /\ last'.kind = kind

\* The step just taken is the code up to the await of a handler of that kind.
DispatchedNow(kind) == last'.op = "dispatch" /\ last'.kind = kind

\* C1: whenever a refresh response is merged into a duplicate-free list and the
\* response itself has distinct hashes, the merged list has no txnHash twice,
\* whatever other request changed the list while the refresh was in flight.
\* (Stated for an external API that honours limit, where it already fails.)
C1_RefreshNeverDuplicates ==
    [][(/\ SettledNow("refresh") /\ last'.ok /\ honoursLimit
        /\ NoDuplicate(messages)
        /\ NoDuplicate(last'.result))
       => NoDuplicate(messages')]_vars

\* C2: a poll response whose first message has the txnHash of the first message
\* of the list held when it arrives leaves hasNewMessages and newMessageCount
\* as they were, also when the poll was dispatched before the list changed.
\* (Stated for an external API that honours limit, where it already fails.)
C2_PollSameHeadKeepsFlag ==
    [][(/\ SettledNow("poll") /\ last'.ok /\ honoursLimit
        /\ messages # <<>> /\ last'.result # <<>>
        /\ last'.result[1].txnHash = messages[1].txnHash)
       => UNCHANGED <<hasNewMessages, newMessageCount>>]_vars

\* C3: when the newest hash of the list the poll callback holds
\* (messages[0].txnHash) first appears in the poll response at index k > 0, the
\* poll sets hasNewMessages = true and newMessageCount = k.
C3_PollCountIsIndex ==
    [][(/\ SettledNow("poll") /\ last'.ok
        /\ last'.req.messages # <<>>)
       => \A k \in 1..(Len(last'.result) - 1) :
            (/\ last'.result[k + 1].txnHash = last'.req.messages[1].txnHash
             /\ \A j \in 1..k :
                  last'.result[j].txnHash # last'.req.messages[1].txnHash)
            => (hasNewMessages' /\ newMessageCount' = k)]_vars

\* C3 witness: a poll has just found the newest known hash at index k > 0 and
\* reported k.
C3_Witness ==
    /\ last.op = "settle" /\ last.kind = "poll" /\ last.ok
    /\ last.req.messages # <<>>
    /\ Len(last.result) >= 2
    /\ last.result[2].txnHash = last.req.messages[1].txnHash
    /\ last.result[1].txnHash # last.req.messages[1].txnHash
    /\ hasNewMessages /\ newMessageCount = 1

\* C4: handleRefresh runs only with hasNewMessages; it requests newMessageCount
\* messages at offset 0 for the selected chains; on success the list becomes the
\* response items whose txnHash is absent from the old list, in response order,
\* followed by the whole old list, and the flag and the count are cleared.
\* (Stated for an external API that honours limit, where it already fails.)
C4_RefreshPrependsUnique ==
    [][/\ DispatchedNow("refresh")
          => /\ hasNewMessages
             /\ last'.req.limit = newMessageCount /\ last'.req.offset = 0
             /\ last'.req.chainIds = selectedChains
       /\ (SettledNow("refresh") /\ last'.ok /\ honoursLimit)
          => /\ messages' =
                  SelectSeq(last'.result,
                            LAMBDA m : m.txnHash \notin Hashes(messages))
                  \o messages
             /\ ~hasNewMessages' /\ newMessageCount' = 0]_vars


\* C5: every successful load-more leaves pagination.offset equal to the offset
\* current just before its completion plus the current limit, leaves limit
\* unchanged and keeps the list it found as a prefix of the new list, also when
\* a search or a reload changed pagination or the list in the meantime.
\* (Stated for an external API that honours limit, where it already fails.)
C5_LoadMoreAdvancesCurrentOffset ==
    [][(SettledNow("loadMore") /\ last'.ok /\ honoursLimit)
       => /\ pagination'.offset = pagination.offset + pagination.limit
          /\ pagination'.limit = pagination.limit
          /\ IsPrefix(messages, messages')]_vars

\* C6: whenever the fetch started by handleSearch("") completes successfully,
\* searchQuery is "", pagination.offset is 0 and the list is the page that the
\* fetch returned, whatever else was in flight at the submission.  (Stated for
\* an external API that honours limit and for a completion before which no
\* later submission has changed searchQuery, where it already fails.)
C6_EmptySearchRestoresLatest ==
    [][(/\ SettledNow("search") /\ last'.ok /\ last'.req.content = <<>>
        /\ honoursLimit /\ searchQuery = <<>>)
       => /\ searchQuery' = <<>>
          /\ pagination'.offset = 0
          /\ messages' = last'.result]_vars

\* The two halves of a search submission with query q: up to the await it
\* stores q, resets the offset and issues a search request for q at offset 0
\* with the current limit; after it, the response replaces the list.
SearchSubmits(q) ==
    /\ (DispatchedNow("search") /\ last'.req.content = q)
       => /\ searchQuery' = q
          /\ pagination'.offset = 0
          /\ last'.req.endpoint = "search"
          /\ last'.req.offset = 0
          /\ last'.req.limit = pagination.limit
    /\ (SettledNow("search") /\ last'.ok /\ last'.req.content = q)
       => messages' = last'.result

\* C7 as stated: every non-empty query is submitted as a search request and
\* its response replaces the list.
C7_NonEmptyQuerySearches ==
    [][\A q \in Queries : q # <<>> => SearchSubmits(q)]_vars

\* C7 as amended: every query that is non-empty after trimming is submitted as a
\* search request at offset 0 with the current limit, searchQuery and
\* pagination.offset are set at once, and its response replaces the list.
C7_NonBlankQuerySearches ==
    [][\A q \in Queries : Trim(q) # <<>> => SearchSubmits(q)]_vars

\* C7 witness: a search for a non-blank query has just replaced a list by its
\* non-empty result, which differs from the first page of the latest messages.
C7_Witness ==
    /\ last.op = "settle" /\ last.kind = "search" /\ last.ok
    /\ Trim(last.req.content) # <<>>
    /\ last.req.endpoint = "search"
    /\ searchQuery = last.req.content
    /\ pagination.offset = 0
    /\ messages = last.result /\ messages # <<>>
    /\ messages # ExternalLatest(feedLen, pagination.limit, 0, <<>>, honoursLimit).result

\* C8 as stated: while a query is active no poll is dispatched and no poll
\* changes hasNewMessages or newMessageCount, not even one dispatched before
\* the query was submitted.
C8_NoPollEffectWhileSearching ==
    [][/\ DispatchedNow("poll") => ~Truthy(searchQuery)
       /\ (SettledNow("poll") /\ Truthy(searchQuery))
          => UNCHANGED <<hasNewMessages, newMessageCount>>]_vars

\* C8 as amended: while a query is active no poll request is dispatched (a poll
\* dispatched before the submission still acts on its response).
C8_NoPollDispatchWhileSearching ==
    [][DispatchedNow("poll") => ~Truthy(searchQuery)]_vars

\* C8 witness: a query is active and the response of a poll dispatched before
\* its submission has just raised the flag.
C8_Witness ==
    /\ Truthy(searchQuery)
    /\ last.op = "settle" /\ last.kind = "poll" /\ last.ok
    /\ hasNewMessages /\ newMessageCount = Len(last.result)

\* C9: a poll step, dispatch or response handling, success or failure, leaves
\* the list, pagination, searchQuery, selectedChains, loading and loadingMore
\* unchanged.
C9_PollFrame ==
    [][last'.kind = "poll"
       => UNCHANGED <<messages, pagination, searchQuery, selectedChains,
                      loading, loadingMore>>]_vars

\* C9 witness: a poll has just raised the flag while another request keeps the
\* feed loading.
C9_Witness ==
    /\ last.op = "settle" /\ last.kind = "poll"
    /\ hasNewMessages /\ newMessageCount > 0
    /\ loading /\ messages # <<>>

\* C10: a failed fetch of initial load, reload, refresh, load-more or search
\* leaves the list as it was and clears the matching loading flag; a failed
\* load-more leaves pagination as it was and a failed refresh leaves
\* hasNewMessages and newMessageCount as they were.
C10_FailureLeavesList ==
    [][(/\ last'.op = "settle" /\ ~last'.ok
        /\ last'.kind \in {"loadInitial", "reload", "refresh", "loadMore", "search"})
       => /\ messages' = messages
          /\ IF last'.kind = "loadMore"
             THEN ~loadingMore' /\ pagination' = pagination
             ELSE ~loading'
          /\ last'.kind = "refresh"
             => UNCHANGED <<hasNewMessages, newMessageCount>>]_vars

\* C10 witness: a refresh has just failed; the list, the flag and the count are
\* still there and the feed is no longer loading.
C10_Witness ==
    /\ last.op = "settle" /\ last.kind = "refresh" /\ ~last.ok
    /\ hasNewMessages /\ newMessageCount > 0
    /\ ~loading /\ messages # <<>>

\* C11: every request served by a latest handler, whichever of the two, sends
\* one request to the external latest-messages endpoint with the inbound (or
\* defaulted: limit 10, offset 0) limit and offset; that request carries the
\* inbound chainIds value when the inbound request has one, and no chainIds
\* when it has none.  (Stated for chainIds values that are not the empty
\* string, where it already fails.)
C11_LatestForwardsChainIds ==
    exchange.handler \in LatestRoutes
    => /\ Len(exchange.outbound) = 1
       /\ exchange.outbound[1].endpoint = "latest-messages"
       /\ exchange.outbound[1].limit = OrDefault(exchange.inbound.limit, DefaultLimit)
       /\ exchange.outbound[1].offset = OrDefault(exchange.inbound.offset, DefaultOffset)
       /\ exchange.inbound.chainIds = Absent
          => exchange.outbound[1].chainIds = Absent
       /\ (exchange.inbound.chainIds # Absent
           /\ ValueOf(exchange.inbound.chainIds) # <<>>)
          => exchange.outbound[1].chainIds = exchange.inbound.chainIds

\* C12: the search handler answers a request whose content is missing or empty
\* with status 400 and the error body and sends nothing to the external API;
\* a request with non-empty content makes it send exactly one search-messages
\* request.
C12_SearchRequiresContent ==
    exchange.handler = "search"
    => IF exchange.inbound.content \in {Absent, Present(<<>>)}
       THEN /\ exchange.response = ContentRequired
            /\ exchange.response.status = BadRequest
            /\ exchange.outbound = <<>>
            /\ exchange.upstream = {}
       ELSE /\ Len(exchange.outbound) = 1
            /\ exchange.outbound[1].endpoint = "search-messages"
            /\ decodeURIComponent(ValueOf(exchange.outbound[1].content))
                 = ValueOf(exchange.inbound.content)

\* C12 witness: the search handler has just refused a request whose content is
\* present but empty, without calling the external API.
C12_Witness ==
    /\ exchange.handler = "search"
    /\ exchange.inbound.content = Present(<<>>)
    /\ exchange.response.status = BadRequest
    /\ exchange.outbound = <<>>

\* C13: whenever the external API answered a handler with a JSON body, the
\* handler returned exactly that body with exactly the upstream status, and it
\* sent one request to the external API; no handler ever sends more than one.
C13_ProxyReturnsUpstream ==
    /\ Len(exchange.outbound) <= 1
    /\ \A upstream \in exchange.upstream :
         upstream.json
         => /\ exchange.response = [status |-> upstream.status, body |-> upstream.body]
            /\ Len(exchange.outbound) = 1

\* C13 witness: the search handler has just passed on an upstream error, status
\* 500 with its JSON error body.
C13_Witness ==
    /\ exchange.handler = "search"
    /\ exchange.upstream = {[status |-> 500, json |-> TRUE, body |-> "error"]}
    /\ exchange.response = [status |-> 500, body |-> "error"]
    /\ Len(exchange.outbound) = 1

\* C14: when the list the poll callback holds is non-empty and the non-empty
\* poll response has no message with that list's newest hash, the poll sets
\* hasNewMessages = true and newMessageCount to the length of the response.
C14_NoOverlapCountsBatch ==
    [][(/\ SettledNow("poll") /\ last'.ok
        /\ last'.req.messages # <<>> /\ last'.result # <<>>
        /\ last'.req.messages[1].txnHash \notin Hashes(last'.result))
       => (hasNewMessages' /\ newMessageCount' = Len(last'.result))]_vars

\* C14 witness: a poll response of two messages, neither of them the newest
\* message of the list, has just been counted as two new messages.
C14_Witness ==
    /\ last.op = "settle" /\ last.kind = "poll" /\ last.ok
    /\ last.req.messages # <<>> /\ Len(last.result) = 2
    /\ last.req.messages[1].txnHash \notin Hashes(last.result)
    /\ hasNewMessages /\ newMessageCount = 2

\* What the external API holds for the chains asked for, most recent first.
SelectedFeed(n, chainIds) == ExternalLatest(n, n, 0, chainIds, TRUE).result

\* C15: whenever a poll sets hasNewMessages = true, newMessageCount is the
\* number of messages of the external feed, for the selected chains, that
\* precede the newest message of the list, however many messages arrived since
\* the list was fetched.  (Stated for operations that run one at a time, an
\* external API that honours limit and is passed the chainIds, a selection
\* that is not empty and a list that is the head of the feed for the selected
\* chains as it was when the list was fetched, where it already fails.)
C15_PollCountsPreceding ==
    [][(/\ SettledNow("poll") /\ last'.ok
        /\ honoursLimit /\ latestRoute = "part_000"
        /\ last'.req.messages = messages /\ last'.req.chainIds = selectedChains
        /\ messages # <<>> /\ selectedChains # <<>>
        /\ PollDiff(last'.result, messages) > 0
        /\ \E k \in 0..feedLen : IsPrefix(messages, SelectedFeed(k, selectedChains)))
       => /\ hasNewMessages'
          /\ newMessageCount' =
               findIndex(SelectedFeed(feedLen, selectedChains), messages[1].txnHash)]_vars

\* C16: no response of a list-replacing request (initial load, chain reload,
\* search or clear) is discarded: each successful one replaces the list when it
\* arrives, whether or not its request still matches searchQuery or
\* selectedChains, so after two overlapping requests the list is the result of
\* the response that arrived last.
C16_LastResponseWins ==
    [][(/\ last'.op = "settle" /\ last'.ok
        /\ last'.kind \in {"loadInitial", "reload", "search"})
       => messages' = last'.result]_vars

\* C16 witness: two submissions overlapped and both have settled; the response
\* that arrived last belongs to the earlier one, whose query is no longer
\* searchQuery, and the list is its result, not the page of the current query.
C16_Witness ==
    /\ inflight = EmptyBag
    /\ last.op = "settle" /\ last.kind = "search" /\ last.ok
    /\ last.req.content # searchQuery
    /\ searchQuery = <<>>
    /\ messages = last.result
    /\ messages # Fetch(Request("search", "latest", pagination.limit, 0,
                                selectedChains, <<>>, <<>>, NoPagination),
                        feedLen, "ok").result

\* C17: in every reachable state, loading is true whenever an initial-load, a
\* chain-reload, a search or a refresh request is in flight.
C17_LoadingWhileFetching ==
    (\E req \in BagToSet(inflight) :
        req.kind \in {"loadInitial", "reload", "search", "refresh"})
    => loading

\* C18: if every dispatched request eventually settles and the user stops
\* issuing operations, the feed eventually is idle and stays idle: loading and
\* loadingMore are false, whatever succeeded or failed and in whatever order
\* the responses arrived.
C18_EventuallyIdle == <>[](~loading /\ ~loadingMore)

\* C18 witness: all the operations have been issued, every request has
\* settled, the last of them with a failure, and the feed is idle.
C18_Witness ==
    /\ mounted /\ ops = MaxOps /\ inflight = EmptyBag
    /\ last.op = "settle" /\ ~last.ok
    /\ ~loading /\ ~loadingMore

\* C19: handleSearch with a query whose trimmed form is empty (the empty string
\* or only whitespace) returns the feed to the latest-messages mode: it
\* requests the latest messages, the stored searchQuery is empty so that
\* polling is not suspended, and when its response has replaced the list the
\* text filter hides none of the fetched messages.
C19_BlankQueryRestoresLatest ==
    [][/\ (DispatchedNow("search") /\ Trim(last'.req.content) = <<>>)
          => /\ last'.req.endpoint = "latest"
             /\ searchQuery' = <<>>
             /\ ~PollingSuspended(searchQuery')
       /\ (/\ SettledNow("search") /\ last'.ok
           /\ Trim(last'.req.content) = <<>>
           /\ searchQuery = last'.req.content)
          => filteredMessages(messages', searchQuery') = last'.result]_vars

\* C20: in latest mode, once the reload of a chain toggle has completed and no
\* request is in flight, every message of the list has a chainId that is in
\* selectedChains, for every selection, the empty one included.  (Stated for
\* the latest handler that forwards chainIds and for a reload that was sent for
\* the selection still current, where it already fails.)
C20_ListWithinSelection ==
    (/\ mounted /\ ~Truthy(searchQuery) /\ inflight = EmptyBag
     /\ last.op = "settle" /\ last.kind = "reload" /\ last.ok
     /\ latestRoute = "part_000"
     /\ last.req.chainIds = selectedChains)
    => \A i \in 1..Len(messages) : messages[i].chainId \in Range(selectedChains)

\* C21: in every reachable state hasNewMessages is true exactly when
\* newMessageCount > 0; only two steps change either of them: a poll response,
\* which sets the flag together with a count of at least 1, and a successful
\* refresh, which clears both.
C21_FlagIffCount ==
    /\ [](hasNewMessages <=> newMessageCount > 0)
    /\ [][(<<hasNewMessages, newMessageCount>>' # <<hasNewMessages, newMessageCount>>)
          => \/ /\ SettledNow("poll") /\ last'.ok
                /\ hasNewMessages' /\ newMessageCount' >= 1
             \/ /\ SettledNow("refresh") /\ last'.ok
                /\ ~hasNewMessages' /\ newMessageCount' = 0]_vars

\* C21 witness: a successful refresh has just cleared the flag and the count
\* that a poll had set, and put the new message in the list.
C21_Witness ==
    /\ last.op = "settle" /\ last.kind = "refresh" /\ last.ok
    /\ ~hasNewMessages /\ newMessageCount = 0
    /\ Len(messages) > Len(last.req.messages)

\* C22: when the operations run one at a time, over an external feed with
\* unique hashes, most recent first, that receives new messages at its head
\* between operations, the list never holds the same txnHash twice.  (Stated
\* for an external API that honours limit and offset, where it already fails.)
C22_SequentialNoDuplicate ==
    honoursLimit => NoDuplicate(messages)


\* C23: when a poll has set hasNewMessages and the refresh that follows it with
\* nothing in between succeeds, the list holds every message of the external
\* feed, for the selected chains, that precedes the message that was the
\* newest of the list, and is again a gap-free window at the head of that feed,
\* however many messages arrived before the poll.  (Stated for operations that
\* run one at a time, an external API that honours limit and is passed the
\* chainIds, a selection that is not empty, and a list that was such a window
\* of the feed when it was fetched.)
C23_RefreshAfterPollNoGap ==
    [][(/\ SettledNow("refresh") /\ last'.ok /\ last'.req.afterPoll
        /\ honoursLimit /\ latestRoute = "part_000"
        /\ last'.req.messages = messages
        /\ last'.req.chainIds = selectedChains
        /\ messages # <<>> /\ selectedChains # <<>>
        /\ \E k \in 0..feedLen : IsPrefix(messages, SelectedFeed(k, selectedChains)))
       => LET feed   == SelectedFeed(feedLen, selectedChains)
              newest == findIndex(feed, messages[1].txnHash)
          IN  /\ \A i \in 1..newest : feed[i].txnHash \in Hashes(messages')
              /\ IsPrefix(messages', feed)]_vars

====
